---- MODULE Spec2Model ----
(***************************************************************************)
(* A model of the Matrix service adapter of src/services/matrix.js: the    *)
(* event relay (start, stop, the client's sync / timeline / membership     *)
(* callbacks and the continuations they leave behind an await), the actor  *)
(* registry (_ensureUser, the id getter) and the command surface           *)
(* (register, _registerActor).                                             *)
(*                                                                         *)
(* The Matrix client (matrix-js-sdk) is the environment: it receives the   *)
(* requests the adapter issues (recorded in `requests`), settles them      *)
(* either way, and delivers callbacks once it was started.  The history    *)
(* variables syncLog, delivered, memberLog and calls record what the       *)
(* environment did, and every emitted event and issued request carries the *)
(* `cause` (the callback or call it was produced for), so that the         *)
(* properties can count events per callback.                               *)
(***************************************************************************)
EXTENDS Integers, Sequences, FiniteSets, TLC

\* ------------------------------------------------------------------ bounds
MaxInputs == 4    \* start() and stop() calls plus callbacks the client delivers
MaxCalls  == 2    \* calls made on the command surface

\* ------------------------------------------------------- settings, inputs
Handle      == "@fabric:fabric.pub"
Coordinator == "!pPjIUAOkwmgXeICrzT:fabric.pub"
Undefined   == "<undefined>"

\* A sync status is a string; it is modelled as the sequence of its parts so
\* that trim() has something to strip.
SP == " "
SyncStatuses ==
  { <<"PREPARED">>, <<SP, "PREPARED", SP>>, <<"SYNCING">> }

\* The arguments (username, password) tried for register.
RegisterInputs ==
  { << Undefined, "secret" >>, << "", "secret" >>, << "alice", Undefined >>,
    << "alice", "" >>, << "alice", "secret" >> }

\* The fields (pubkey, password) of the objects tried for _registerActor.
ActorInputs ==
  { << Undefined, "secret" >>, << "", Undefined >>, << "02ab", Undefined >>,
    << "02ab", "" >>, << "02ab", "secret" >> }

TimelineInputs ==
  { [type |-> "m.room.message", sender |-> "@alice:matrix.org",
     body |-> "hello", room |-> "!lobby:fabric.pub"],
    [type |-> "m.room.message", sender |-> Handle,
     body |-> "bye", room |-> Coordinator],
    [type |-> "m.reaction", sender |-> "@bob:matrix.org",
     body |-> Undefined, room |-> "!lobby:fabric.pub"] }

MemberInputs ==
  { [membership |-> "invite", userId |-> Handle, roomId |-> "!lobby:fabric.pub"],
    [membership |-> "invite", userId |-> "@bob:matrix.org", roomId |-> "!lobby:fabric.pub"],
    [membership |-> "join", userId |-> Handle, roomId |-> "!den:fabric.pub"] }

VARIABLES
  connect,      \* settings.connect
  autojoin,     \* settings.autojoin
  status,       \* _state.status
  actors,       \* _state.actors:  actor id -> stored data
  users,        \* _state.users:   external user id -> actor id
  alive,        \* FALSE once process.exit() ran
  syncOnce,     \* client.once('sync', ...) listeners not fired yet
  preparedL,    \* this.on('prepared', ...) listeners
  activityL,    \* this.on('activity', ...) listeners
  timelineL,    \* client.on('Room.timeline', ...) listeners
  memberL,      \* client.on('RoomMember.membership', ...) listeners
  pending,      \* handlers suspended on `await this._syncState()`, oldest first
  events,       \* the local event stream, in emission order ('log' aside)
  logged,       \* the number of 'log' events emitted
  requests,     \* requests issued to the client, in order
  syncLog,      \* history: sync callbacks delivered
  delivered,    \* history: timeline events delivered
  memberLog,    \* history: membership callbacks delivered
  calls         \* calls made on the adapter: where each one stands (the
                \* await it is suspended on) or how it ended

vars == << connect, autojoin, status, actors, users, alive, syncOnce, preparedL,
           activityL, timelineL, memberL, pending, events, logged,
           requests, syncLog, delivered, memberLog, calls >>

\* ----------------------------------------------------------------- helpers
NoTarget == << >>
NoActor  == << >>
NoArgs   == << >>

Ev(type, cause, actor, id, content, target) ==
  [type |-> type, cause |-> cause, actor |-> actor, id |-> id,
   content |-> content, target |-> target]

Plain(type, cause, content) == Ev(type, cause, NoActor, 0, content, NoTarget)

Req(op, cause, arg) == [op |-> op, cause |-> cause, arg |-> arg]

\* A call on the adapter: its arguments, where it stands (`outcome`: the await
\* it is suspended on, "returned" or "threw"), what it returned or threw, and
\* how the client requests it awaited settled so far (`settled`, in order).
Call(op, n, outcome, args, ret) ==
  [op |-> op, n |-> n, outcome |-> outcome, args |-> args, ret |-> ret,
   settled |-> << >>]

\* A client request settled: it resolved (ok) or rejected.
Settlement(op, ok) == << op, ok >>

RECURSIVE Repeat(_, _)
Repeat(s, n) == IF n <= 0 THEN << >> ELSE s \o Repeat(s, n - 1)

Count(seq, P(_)) == Cardinality({ i \in DOMAIN seq : P(seq[i]) })

Put(f, k, v) == [ x \in (DOMAIN f) \cup {k} |-> IF x = k THEN v ELSE f[x] ]

\* The calls made and the callbacks delivered so far.
Inputs == Len(calls) + Len(syncLog) + Len(delivered) + Len(memberLog)

\* ------------------------------------------------------------- the status
\* set status (value): only 'READY' is stored, any other value is refused.
SetStatus(cur, value) == IF value = "READY" THEN value ELSE cur

\* ------------------------------------------------------ the actor registry
\* Faulty variant: the id does not depend on the value.
ActorIdConstant(field, value) == << "actor", field, "" >>

\* new Actor(content).id: a hash of the content, taken to be collision free.
ActorId(field, value) == << "actor", field, value >>

\* new Actor(content).data
ActorData(field, value) == << field, value >>

\* Faulty variant: the actor is not stored.
EnsureActorsSkipped(as, id) == as

\* _ensureUser: the two writes to the local state.
EnsureActors(as, id) == Put(as, ActorId("id", id), ActorData("id", id))

\* Faulty variant: the users entry is not written.
EnsureUsersSkipped(us, id) == us

EnsureUsers(us, id) == Put(us, id, ActorId("id", id))

Init ==
  /\ connect \in BOOLEAN
  /\ autojoin \in BOOLEAN
  /\ status = "READY"
  /\ actors = << >>
  /\ users = << >>
  /\ alive = TRUE
  /\ syncOnce = 0
  /\ preparedL = 0
  /\ activityL = 0
  /\ timelineL = 0
  /\ memberL = 0
  /\ pending = << >>
  /\ events = << >>
  /\ logged = 0
  /\ requests = << >>
  /\ syncLog = << >>
  /\ delivered = << >>
  /\ memberLog = << >>
  /\ calls = << >>

\* ------------------------------------------------------------------ start
\* A call that has not returned or thrown yet.
InFlight(c) == c.outcome \notin { "returned", "threw" }

\* Faulty variant: the connect setting is ignored.
ConnectsAlways(setting) == TRUE

\* `if (this.settings.connect)`: whether the client is contacted at all.
Connects(setting) == setting

\* start(), up to its first await (or to its end when connect is false).  The
\* caller awaits one call before it makes the next, as main() does.
Start ==
  /\ alive
  /\ Inputs < MaxInputs
  /\ \A k \in DOMAIN calls : ~InFlight(calls[k])
  /\ LET n == Len(calls) + 1
         c == << "start", n >>
     IN /\ syncOnce' = syncOnce + 1
        /\ activityL' = activityL + 1
        /\ preparedL' = preparedL + 1
        /\ IF Connects(connect)
             THEN /\ status' = SetStatus(status, "STARTING")
                  /\ calls' = Append(calls, Call("start", n, "await startClient", NoArgs, ""))
                  /\ requests' = Append(requests, Req("startClient", c, ""))
                  /\ logged' = logged + 1
                  /\ memberL' = memberL
             ELSE /\ status' = SetStatus(SetStatus(status, "STARTING"), "STARTED")
                  /\ calls' = Append(calls, Call("start", n, "returned", NoArgs, ""))
                  /\ memberL' = memberL + 1
                  /\ logged' = logged + 2
                  /\ requests' = requests
  /\ UNCHANGED << connect, autojoin, actors, users, alive, timelineL, pending,
                  events, syncLog, delivered, memberLog >>

\* A client request settles in a later turn of the event loop, after the
\* handlers suspended on `await this._syncState()` (microtasks) have run.
Drained == pending = << >>

\* await this.client.startClient(...) settles: on success start() goes on to
\* request the coordinator join, on failure start() throws.
StartClientSettled ==
  /\ alive
  /\ Drained
  /\ \E n \in DOMAIN calls, ok \in BOOLEAN :
       /\ calls[n].op = "start"
       /\ calls[n].outcome = "await startClient"
       /\ IF ok
            THEN /\ calls' = [calls EXCEPT ![n].outcome = "await joinRoom"]
                 /\ requests' = Append(requests,
                                  Req("joinRoom", << "start", n >>, Coordinator))
            ELSE /\ calls' = [calls EXCEPT ![n].outcome = "threw"]
                 /\ requests' = requests
  /\ UNCHANGED << connect, autojoin, status, actors, users, alive, syncOnce,
                  preparedL, activityL, timelineL, memberL, pending, events,
                  logged, syncLog, delivered, memberLog >>

\* await this.client.joinRoom(coordinator) settles: on success start() adds
\* the membership listener, sets the status and returns; on failure it throws.
StartJoinSettled ==
  /\ alive
  /\ Drained
  /\ \E n \in DOMAIN calls, ok \in BOOLEAN :
       /\ calls[n].op = "start"
       /\ calls[n].outcome = "await joinRoom"
       /\ IF ok
            THEN /\ calls' = [calls EXCEPT ![n].outcome = "returned"]
                 /\ memberL' = memberL + 1
                 /\ status' = SetStatus(status, "STARTED")
                 /\ logged' = logged + 1
            ELSE /\ calls' = [calls EXCEPT ![n].outcome = "threw"]
                 /\ UNCHANGED << memberL, status, logged >>
  /\ UNCHANGED << connect, autojoin, actors, users, alive, syncOnce, preparedL,
                  activityL, timelineL, pending, events, requests, syncLog,
                  delivered, memberLog >>

\* ------------------------------------------------------------------- stop
Stop ==
  /\ alive
  /\ Inputs < MaxInputs
  /\ status' = SetStatus(SetStatus(status, "STOPPING"), "STOPPED")
  /\ calls' = Append(calls, Call("stop", Len(calls) + 1, "returned", NoArgs, ""))
  /\ UNCHANGED << connect, autojoin, actors, users, alive, syncOnce, preparedL,
                  activityL, timelineL, memberL, pending, events, logged,
                  requests, syncLog, delivered, memberLog >>

\* --------------------------------------------------- the client's callbacks
\* The client delivers callbacks once startClient was requested.
ClientStarted == \E i \in DOMAIN requests : requests[i].op = "startClient"

RECURSIVE TrimLeft(_)
TrimLeft(s) == IF s # << >> /\ Head(s) = SP THEN TrimLeft(Tail(s)) ELSE s

RECURSIVE TrimRight(_)
TrimRight(s) ==
  IF s # << >> /\ s[Len(s)] = SP THEN TrimRight(SubSeq(s, 1, Len(s) - 1)) ELSE s

\* String.prototype.trim
Trim(s) == TrimRight(TrimLeft(s))

\* Faulty variant: the status is compared untrimmed.
SyncBranchNoTrim(st) == IF st = << "PREPARED" >> THEN "prepared" ELSE "fatal"

\* Faulty variant: no status is fatal.
SyncBranchNeverFatal(st) == "prepared"

\* _handleClientSync: the branch taken for a status.
SyncBranch(st) == IF Trim(st) = << "PREPARED" >> THEN "prepared" ELSE "fatal"

\* _handlePreparedEvent up to its await: one more timeline listener, and the
\* rest of the handler (the 'ready' emission) left behind the await.
ReadyLater(c) == Plain("ready", c, "")

\* The client emits 'sync': every once-listener not fired yet runs
\* _handleClientSync, in registration order; each 'prepared' it emits runs
\* every 'prepared' listener.  process.exit() ends the dispatch.
Sync ==
  /\ alive
  /\ ClientStarted
  /\ Inputs < MaxInputs
  /\ \E st \in SyncStatuses :
       LET i == Len(syncLog) + 1
           c == << "sync", i >>
       IN /\ syncLog' = Append(syncLog, [status |-> st, once |-> syncOnce,
                                          prepared |-> preparedL])
          /\ IF syncOnce = 0
               THEN UNCHANGED << syncOnce, events, alive, timelineL, pending >>
               ELSE IF SyncBranch(st) = "prepared"
                 THEN /\ syncOnce' = 0
                      /\ events' = events \o
                           Repeat(<< Plain("message", c, "MatrixClientSync"),
                                     Plain("prepared", c, st) >>, syncOnce)
                      /\ timelineL' = timelineL + syncOnce * preparedL
                      /\ pending' = pending \o
                           Repeat(<< ReadyLater(c) >>, syncOnce * preparedL)
                      /\ alive' = alive
                 ELSE /\ syncOnce' = syncOnce - 1
                      /\ events' = Append(events, Plain("error", c, st))
                      /\ alive' = FALSE
                      /\ UNCHANGED << timelineL, pending >>
  /\ UNCHANGED << connect, autojoin, status, actors, users, preparedL, activityL,
                  memberL, logged, requests, delivered, memberLog, calls >>

\* _handleRoomTimeline: what one listener leaves behind the await (message
\* branch) or emits at once (default branch) for the event d with id `id`.
\* Faulty variant: the target is the coordinator, not the event's room.
ActivityOfCoordinator(d, id) ==
  Ev("activity", << "timeline", id >>, ActorId("id", d.sender), id, d.body,
     << "/rooms/", Coordinator >>)

ActivityOf(d, id) ==
  Ev("activity", << "timeline", id >>, ActorId("id", d.sender), id, d.body,
     << "/rooms/", d.room >>)

WarningOf(d, id) == Plain("warning", << "timeline", id >>, d.type)

\* Faulty variant: reactions take the message branch too.
IsMessageOrReaction(d) == d.type \in { "m.room.message", "m.reaction" }

IsMessage(d) == d.type = "m.room.message"

\* The client emits 'Room.timeline': every timeline listener runs
\* _handleRoomTimeline.
Timeline ==
  /\ alive
  /\ ClientStarted
  /\ Inputs < MaxInputs
  /\ \E d \in TimelineInputs :
       LET id == Len(delivered) + 1
       IN /\ delivered' = Append(delivered,
               [type |-> d.type, sender |-> d.sender, body |-> d.body,
                room |-> d.room, subs |-> timelineL, syncs |-> Len(syncLog)])
          /\ IF timelineL = 0
               THEN UNCHANGED << actors, users, pending, events >>
               ELSE /\ actors' = EnsureActors(actors, d.sender)
                    /\ users' = EnsureUsers(users, d.sender)
                    /\ IF IsMessage(d)
                         THEN /\ pending' = pending \o
                                   Repeat(<< ActivityOf(d, id) >>, timelineL)
                              /\ events' = events
                         ELSE /\ events' = events \o
                                   Repeat(<< WarningOf(d, id) >>, timelineL)
                              /\ pending' = pending
  /\ UNCHANGED << connect, autojoin, status, alive, syncOnce, preparedL,
                  activityL, timelineL, memberL, logged, requests, syncLog,
                  memberLog, calls >>

\* Faulty variant: the invited user is not compared with the handle.
ShouldJoinAnyUser(aj, m) == aj /\ m.membership = "invite"

\* The condition of the membership listener registered by start().
ShouldJoin(aj, m) == aj /\ m.membership = "invite" /\ m.userId = Handle

\* The client emits 'RoomMember.membership': every membership listener runs.
Membership ==
  /\ alive
  /\ ClientStarted
  /\ Inputs < MaxInputs
  /\ \E m \in MemberInputs :
       LET i == Len(memberLog) + 1
       IN /\ memberLog' = Append(memberLog,
               [membership |-> m.membership, userId |-> m.userId,
                roomId |-> m.roomId, subs |-> memberL])
          /\ requests' = requests \o
               Repeat(<< Req("joinRoom", << "member", i >>, m.roomId) >>,
                      IF ShouldJoin(autojoin, m) THEN memberL ELSE 0)
  /\ UNCHANGED << connect, autojoin, status, actors, users, alive, syncOnce,
                  preparedL, activityL, timelineL, memberL, pending, events,
                  logged, syncLog, delivered, calls >>

\* `await this._syncState()` returns control to the oldest suspended handler,
\* which emits its event ('ready' or 'activity').
Resume ==
  /\ alive
  /\ pending # << >>
  /\ events' = Append(events, Head(pending))
  /\ pending' = Tail(pending)
  /\ UNCHANGED << connect, autojoin, status, actors, users, alive, syncOnce,
                  preparedL, activityL, timelineL, memberL, logged, requests,
                  syncLog, delivered, memberLog, calls >>

\* ------------------------------------------------------ the command surface
\* !value
Falsy(v) == v \in { Undefined, "" }

\* Faulty variant: only the username is validated.
RegisterCheckUsernameOnly(username, password) ==
  IF Falsy(username) THEN "Must provide username." ELSE "ok"

\* register: the two validations.
RegisterCheck(username, password) ==
  IF Falsy(username) THEN "Must provide username."
  ELSE IF Falsy(password) THEN "Must provide password."
  ELSE "ok"

\* register(username, password), up to its await: it throws on a missing
\* argument, and else requests the registration.
Register ==
  /\ alive
  /\ Len(calls) < MaxCalls
  /\ \A k \in DOMAIN calls : ~InFlight(calls[k])
  /\ \E args \in RegisterInputs :
       LET n == Len(calls) + 1
           check == RegisterCheck(args[1], args[2])
       IN IF check # "ok"
            THEN /\ calls' = Append(calls, Call("register", n, "threw", args, check))
                 /\ UNCHANGED << logged, requests >>
            ELSE /\ calls' = Append(calls,
                        Call("register", n, "await registerRequest", args, ""))
                 /\ logged' = logged + 1
                 /\ requests' = Append(requests,
                        Req("registerRequest", << "register", n >>, args))
  /\ UNCHANGED << connect, autojoin, status, actors, users, alive, syncOnce,
                  preparedL, activityL, timelineL, memberL, pending, events,
                  syncLog, delivered, memberLog >>

\* Faulty variant: null is returned whatever the request did.
RegisterResultNull(ok) == "null"

\* register: `result` stays null when the request fails and is the client's
\* result otherwise.
RegisterResult(ok) == IF ok THEN "result" ELSE "null"

\* await this.client.registerRequest(...) settles in register: the result is
\* returned, a failure is written to the console and null is returned.
RegisterSettled ==
  /\ alive
  /\ Drained
  /\ \E n \in DOMAIN calls, ok \in BOOLEAN :
       /\ calls[n].op = "register"
       /\ calls[n].outcome = "await registerRequest"
       /\ calls' = [calls EXCEPT ![n].outcome = "returned",
                                 ![n].ret = RegisterResult(ok),
                                 ![n].settled = Append(@, Settlement("registerRequest", ok))]
  /\ UNCHANGED << connect, autojoin, status, actors, users, alive, syncOnce,
                  preparedL, activityL, timelineL, memberL, pending, events,
                  logged, requests, syncLog, delivered, memberLog >>

\* Faulty variant: the pubkey is not validated.
RegisterActorCheckNone(pubkey) == "ok"

\* _registerActor: the validation of the object.
RegisterActorCheck(pubkey) ==
  IF Falsy(pubkey) THEN "Field \"pubkey\" is required." ELSE "ok"

\* Object.assign({}, object) without a truthy password.
Memory(pubkey, password) ==
  << "pubkey", pubkey >> \o
    (IF password = "" THEN << "password", password >> ELSE << >>)

\* object.password || hashpass
PasswordOr(password) == IF Falsy(password) THEN "hashpass" ELSE password

ActorEvent(n, pubkey) ==
  Ev("actor", << "registerActor", n >>, ActorId("pubkey", pubkey), 0, "", NoTarget)

\* _registerActor(object), up to its first await (or to its end when connect
\* is false): the validation, the local actor entry, and the availability
\* request of _checkUsernameAvailable.
RegisterActorOf(inputs) ==
  /\ alive
  /\ Len(calls) < MaxCalls
  /\ Inputs < MaxInputs
  /\ \A k \in DOMAIN calls : ~InFlight(calls[k])
  /\ \E args \in inputs :
       LET n == Len(calls) + 1
           c == << "registerActor", n >>
           pubkey == args[1]
           password == args[2]
           check == RegisterActorCheck(pubkey)
       IN IF check # "ok"
            THEN /\ calls' = Append(calls,
                        Call("registerActor", n, "threw", args, check))
                 /\ UNCHANGED << actors, logged, requests, events >>
            ELSE /\ actors' = Put(actors, ActorId("pubkey", pubkey),
                                  Memory(pubkey, password))
                 /\ IF Connects(connect)
                      THEN /\ calls' = Append(calls,
                                  Call("registerActor", n,
                                       "await isUsernameAvailable", args, ""))
                           /\ logged' = logged + 2
                           /\ requests' = Append(requests,
                                  Req("isUsernameAvailable", c, << pubkey >>))
                           /\ events' = events
                      ELSE /\ calls' = Append(calls,
                                  Call("registerActor", n, "returned", args, "data"))
                           /\ events' = Append(events, ActorEvent(n, pubkey))
                           /\ UNCHANGED << logged, requests >>
  /\ UNCHANGED << connect, autojoin, status, users, alive, syncOnce, preparedL,
                  activityL, timelineL, memberL, pending, syncLog, delivered,
                  memberLog >>

\* _registerActor called with any of the objects tried.
RegisterActor == RegisterActorOf(ActorInputs)

\* _registerActor called next to the relay: an object without pubkey, or one
\* with pubkey and password.
RegistryActors == { << Undefined, "secret" >>, << "02ab", "secret" >> }

RegisterKnownActor == RegisterActorOf(RegistryActors)

\* The call n of _registerActor goes on to its login step.
LoginRequest(n) ==
  Req("login", << "registerActor", n >>,
      << calls[n].args[1], PasswordOr(calls[n].args[2]) >>)

\* Faulty variant: registration is attempted whatever the check said.
ShouldRegisterAlways(available) == TRUE

\* _registerActor: `if (available)` guards the registration attempt.
ShouldRegister(available) == available

\* _checkUsernameAvailable: true when the client's request resolved, false
\* when it rejected.
CheckUsernameAvailable(ok) == ok

\* The availability request settles: _checkUsernameAvailable resolves true
\* on success and false on failure, the answer is emitted as a 'message',
\* and _registerActor goes on to register (if available) or to log in.
AvailabilitySettled ==
  /\ alive
  /\ Drained
  /\ \E n \in DOMAIN calls, ok \in BOOLEAN :
       LET c == << "registerActor", n >>
       IN /\ calls[n].op = "registerActor"
          /\ calls[n].outcome = "await isUsernameAvailable"
          /\ events' = Append(events,
                 Plain("message", c,
                       IF CheckUsernameAvailable(ok) THEN "OracleBoolean true"
                                                     ELSE "OracleBoolean false"))
          /\ IF ShouldRegister(CheckUsernameAvailable(ok))
               THEN /\ calls' = [calls EXCEPT ![n].outcome = "await registerRequest",
                        ![n].settled = Append(@, Settlement("isUsernameAvailable", ok))]
                    /\ logged' = logged + 2
                    /\ requests' = Append(requests,
                           Req("registerRequest", c,
                               << calls[n].args[1], PasswordOr(calls[n].args[2]) >>))
               ELSE /\ calls' = [calls EXCEPT ![n].outcome = "await login",
                        ![n].settled = Append(@, Settlement("isUsernameAvailable", ok))]
                    /\ logged' = logged + 1
                    /\ requests' = Append(requests, LoginRequest(n))
  /\ UNCHANGED << connect, autojoin, status, actors, users, alive, syncOnce,
                  preparedL, activityL, timelineL, memberL, pending, syncLog,
                  delivered, memberLog >>

\* The registration request made for _registerActor settles: register
\* swallows a failure, and _registerActor goes on to log in.
ActorRegisterSettled ==
  /\ alive
  /\ Drained
  /\ \E n \in DOMAIN calls, ok \in BOOLEAN :
       /\ calls[n].op = "registerActor"
       /\ calls[n].outcome = "await registerRequest"
       /\ calls' = [calls EXCEPT ![n].outcome = "await login",
                    ![n].settled = Append(@, Settlement("registerRequest", ok))]
       /\ logged' = logged + 2
       /\ requests' = Append(requests, LoginRequest(n))
  /\ UNCHANGED << connect, autojoin, status, actors, users, alive, syncOnce,
                  preparedL, activityL, timelineL, memberL, pending, events,
                  syncLog, delivered, memberLog >>

\* The login request settles: a failure is emitted as an 'error', and
\* _registerActor goes on to join the coordinator.
LoginSettled ==
  /\ alive
  /\ Drained
  /\ \E n \in DOMAIN calls, ok \in BOOLEAN :
       LET c == << "registerActor", n >>
       IN /\ calls[n].op = "registerActor"
          /\ calls[n].outcome = "await login"
          /\ calls' = [calls EXCEPT ![n].outcome = "await joinRoom",
                       ![n].settled = Append(@, Settlement("login", ok))]
          /\ events' = IF ok THEN events
                       ELSE Append(events,
                              Plain("error", c, "Could not authenticate with coordinator"))
          /\ logged' = logged + 1
          /\ requests' = Append(requests, Req("joinRoom", c, Coordinator))
  /\ UNCHANGED << connect, autojoin, status, actors, users, alive, syncOnce,
                  preparedL, activityL, timelineL, memberL, pending, syncLog,
                  delivered, memberLog >>

\* The coordinator join settles: a failure is emitted as an 'error', then
\* 'actor' is emitted and _registerActor returns the actor's data.
ActorJoinSettled ==
  /\ alive
  /\ Drained
  /\ \E n \in DOMAIN calls, ok \in BOOLEAN :
       LET c == << "registerActor", n >>
       IN /\ calls[n].op = "registerActor"
          /\ calls[n].outcome = "await joinRoom"
          /\ calls' = [calls EXCEPT ![n].outcome = "returned", ![n].ret = "data",
                       ![n].settled = Append(@, Settlement("joinRoom", ok))]
          /\ events' = events \o
               (IF ok THEN << >>
                ELSE << Plain("error", c, "Could not join coordinator") >>) \o
               << ActorEvent(n, calls[n].args[1]) >>
  /\ UNCHANGED << connect, autojoin, status, actors, users, alive, syncOnce,
                  preparedL, activityL, timelineL, memberL, pending, logged,
                  requests, syncLog, delivered, memberLog >>

\* ------------------------------------------------------------ the registry
\* The external user ids _ensureUser is called with.
UserInputs == { "@alice:matrix.org", "@carol:matrix.org" }

\* _ensureUser (user): the actor derived from the id is stored, the user is
\* mapped to it, and the actor is returned.  The caller makes the call when
\* no call of its own is awaited.
EnsureUser ==
  /\ alive
  /\ Inputs < MaxInputs
  /\ \A k \in DOMAIN calls : ~InFlight(calls[k])
  /\ \E u \in UserInputs :
       /\ actors' = EnsureActors(actors, u)
       /\ users' = EnsureUsers(users, u)
       /\ calls' = Append(calls, Call("ensureUser", Len(calls) + 1, "returned",
                                      << u >>, ActorId("id", u)))
  /\ UNCHANGED << connect, autojoin, status, alive, syncOnce, preparedL,
                  activityL, timelineL, memberL, pending, events, logged,
                  requests, syncLog, delivered, memberLog >>

\* get id: _ensureUser of the adapter's own handle, and the actor's id.
IdRead ==
  /\ alive
  /\ Inputs < MaxInputs
  /\ \A k \in DOMAIN calls : ~InFlight(calls[k])
  /\ actors' = EnsureActors(actors, Handle)
  /\ users' = EnsureUsers(users, Handle)
  /\ calls' = Append(calls, Call("id", Len(calls) + 1, "returned",
                                 << Handle >>, ActorId("id", Handle)))
  /\ UNCHANGED << connect, autojoin, status, alive, syncOnce, preparedL,
                  activityL, timelineL, memberL, pending, events, logged,
                  requests, syncLog, delivered, memberLog >>

\* ------------------------------------------------- the messaging surface
\* An event of a room's timeline: getId(), event.room_id and its content.
TimelineEvent(id, room, body) == [id |-> id, room_id |-> room, body |-> body]

Room(roomId, timeline) == [roomId |-> roomId, timeline |-> timeline]

\* null, as a value of the same shape as an event.
Null == TimelineEvent(Undefined, Undefined, Undefined)

\* What client.getRooms() may return: no room; two rooms with distinct
\* events; the same event id at several places; a room without events.
RoomLists ==
  { << >>,
    << Room("!lobby", << TimelineEvent("$1", "!lobby", "a"),
                         TimelineEvent("$2", "!lobby", "b") >>),
       Room("!den", << TimelineEvent("$3", "!den", "c") >>) >>,
    << Room("!lobby", << TimelineEvent("$1", "!lobby", "old"),
                         TimelineEvent("$1", "!lobby", "new") >>),
       Room("!den", << TimelineEvent("$2", "!den", "x"),
                       TimelineEvent("$1", "!den", "den") >>),
       Room("!attic", << >>) >>,
    << Room("!lobby", << >>),
       Room("!den", << TimelineEvent("$2", "!den", "y") >>) >> }

EventIds == { "$1", "$3" }

\* The messages _send is called with: none, one without an object, one with
\* object.content.
MsgInputs ==
  { [defined |-> FALSE, object |-> FALSE, content |-> Undefined],
    [defined |-> TRUE, object |-> FALSE, content |-> Undefined],
    [defined |-> TRUE, object |-> TRUE, content |-> "hi"] }

ChannelInputs == { Undefined, "!lobby" }

\* _getEvent: the inner loop, j from the end of the timeline down to its start.
RECURSIVE ScanTimeline(_, _, _)
ScanTimeline(timeline, j, eventID) ==
  IF j < 1 THEN Null
  ELSE IF timeline[j].id = eventID THEN timeline[j]
  ELSE ScanTimeline(timeline, j - 1, eventID)

\* _getEvent: the outer loop, i from the last room down to the first.
RECURSIVE ScanRooms(_, _, _)
ScanRooms(rooms, i, eventID) ==
  IF i < 1 THEN Null
  ELSE LET specificEvent == ScanTimeline(rooms[i].timeline,
                                         Len(rooms[i].timeline), eventID)
       IN IF specificEvent # Null THEN specificEvent
          ELSE ScanRooms(rooms, i - 1, eventID)

\* Faulty variant: the first room is searched and no other.
GetEventFirstRoom(rooms, eventID) == ScanRooms(rooms, IF rooms = << >> THEN 0 ELSE 1, eventID)

\* _getEvent (eventID) over the rooms the client returns.
GetEvent(rooms, eventID) == ScanRooms(rooms, Len(rooms), eventID)

\* A call of _getEvent: it returns the event found, or null.
GetEventCall ==
  /\ alive
  /\ Len(calls) < MaxCalls
  /\ \A k \in DOMAIN calls : ~InFlight(calls[k])
  /\ \E rooms \in RoomLists, eventID \in EventIds :
       calls' = Append(calls, Call("getEvent", Len(calls) + 1, "returned",
                                   << eventID, rooms >>, GetEvent(rooms, eventID)))
  /\ UNCHANGED << connect, autojoin, status, actors, users, alive, syncOnce,
                  preparedL, activityL, timelineL, memberL, pending, events,
                  logged, requests, syncLog, delivered, memberLog >>

\* Faulty variant: every request goes to the coordinator's room.
RoomOfCoordinator(event) == Coordinator

\* event.event.room_id; reading it from null is a TypeError.
RoomOf(event) == event.room_id

\* _react (eventID, emoji), up to its await of sendEvent: the event is looked
\* up, and the reaction is sent to its room; when no event is found, reading
\* its room throws before anything is sent.
React ==
  /\ alive
  /\ Len(calls) < MaxCalls
  /\ \A k \in DOMAIN calls : ~InFlight(calls[k])
  /\ \E rooms \in RoomLists, eventID \in EventIds :
       LET n == Len(calls) + 1
           event == GetEvent(rooms, eventID)
           args == << eventID, rooms, "+1" >>
       IN IF event = Null
            THEN /\ calls' = Append(calls, Call("react", n, "threw", args, "TypeError"))
                 /\ requests' = requests
            ELSE /\ calls' = Append(calls, Call("react", n, "await sendEvent", args, ""))
                 /\ requests' = Append(requests,
                        Req("sendEvent", << "react", n >>,
                            << RoomOf(event), "m.reaction",
                               << "m.annotation", eventID, "+1" >> >>))
  /\ UNCHANGED << connect, autojoin, status, actors, users, alive, syncOnce,
                  preparedL, activityL, timelineL, memberL, pending, events,
                  logged, syncLog, delivered, memberLog >>

\* The reaction's sendEvent settles: _react returns the id of the new event,
\* or throws what the client threw.
ReactSettled ==
  /\ alive
  /\ Drained
  /\ \E n \in DOMAIN calls, ok \in BOOLEAN :
       /\ calls[n].op = "react"
       /\ calls[n].outcome = "await sendEvent"
       /\ calls' = [calls EXCEPT
            ![n].outcome = IF ok THEN "returned" ELSE "threw",
            ![n].ret = IF ok THEN "result.event_id" ELSE "rejection",
            ![n].settled = Append(@, Settlement("sendEvent", ok))]
  /\ UNCHANGED << connect, autojoin, status, actors, users, alive, syncOnce,
                  preparedL, activityL, timelineL, memberL, pending, events,
                  logged, requests, syncLog, delivered, memberLog >>

\* _redact (eventID): the event is looked up and its redaction is requested
\* in its room, without awaiting the request; when no event is found,
\* reading its room throws before anything is requested.
Redact ==
  /\ alive
  /\ Len(calls) < MaxCalls
  /\ \A k \in DOMAIN calls : ~InFlight(calls[k])
  /\ \E rooms \in RoomLists, eventID \in EventIds :
       LET n == Len(calls) + 1
           event == GetEvent(rooms, eventID)
           args == << eventID, rooms >>
       IN IF event = Null
            THEN /\ calls' = Append(calls, Call("redact", n, "threw", args, "TypeError"))
                 /\ requests' = requests
            ELSE /\ calls' = Append(calls, Call("redact", n, "returned", args, Undefined))
                 /\ requests' = Append(requests,
                        Req("redactEvent", << "redact", n >>,
                            << RoomOf(event), eventID >>))
  /\ UNCHANGED << connect, autojoin, status, actors, users, alive, syncOnce,
                  preparedL, activityL, timelineL, memberL, pending, events,
                  logged, syncLog, delivered, memberLog >>

\* Faulty variant: the channel argument is ignored.
ChannelOrCoordinator(channel) == Coordinator

\* _send's default parameter: channel = this.settings.coordinator.
ChannelOr(channel) == IF channel = Undefined THEN Coordinator ELSE channel

\* _send: the body of the content sent.
Body(msg) == IF msg.defined /\ msg.object THEN msg.content ELSE Undefined

\* The text message _send hands to client.sendEvent.
TextMessage(n, op, msg, channel) ==
  Req("sendEvent", << op, n >>,
      << ChannelOr(channel), "m.room.message", Body(msg), "m.text" >>)

\* _send (msg, channel), up to its await of sendEvent; without a message,
\* reading msg.object throws.
Send ==
  /\ alive
  /\ Len(calls) < MaxCalls
  /\ \A k \in DOMAIN calls : ~InFlight(calls[k])
  /\ \E msg \in MsgInputs, channel \in ChannelInputs :
       LET n == Len(calls) + 1
           args == << msg, channel >>
       IN IF ~msg.defined
            THEN /\ calls' = Append(calls, Call("send", n, "threw", args, "TypeError"))
                 /\ requests' = requests
            ELSE /\ calls' = Append(calls, Call("send", n, "await sendEvent", args, ""))
                 /\ requests' = Append(requests, TextMessage(n, "send", msg, channel))
  /\ UNCHANGED << connect, autojoin, status, actors, users, alive, syncOnce,
                  preparedL, activityL, timelineL, memberL, pending, events,
                  logged, syncLog, delivered, memberLog >>

\* alert (msg): _send of { object: { content: msg } } to the default channel.
Alert ==
  /\ alive
  /\ Len(calls) < MaxCalls
  /\ \A k \in DOMAIN calls : ~InFlight(calls[k])
  /\ LET n == Len(calls) + 1
         msg == [defined |-> TRUE, object |-> TRUE, content |-> "alarm"]
     IN /\ calls' = Append(calls,
               Call("alert", n, "await sendEvent", << msg, Undefined >>, ""))
        /\ requests' = Append(requests, TextMessage(n, "alert", msg, Undefined))
  /\ UNCHANGED << connect, autojoin, status, actors, users, alive, syncOnce,
                  preparedL, activityL, timelineL, memberL, pending, events,
                  logged, syncLog, delivered, memberLog >>

\* The text message's sendEvent settles: _send returns the client's result as
\* { matrix: result } (alert returns nothing), or throws what the client
\* threw.
SendSettled ==
  /\ alive
  /\ Drained
  /\ \E n \in DOMAIN calls, ok \in BOOLEAN :
       /\ calls[n].op \in { "send", "alert" }
       /\ calls[n].outcome = "await sendEvent"
       /\ calls' = [calls EXCEPT
            ![n].outcome = IF ok THEN "returned" ELSE "threw",
            ![n].ret = IF ~ok THEN << "rejection" >>
                       ELSE IF calls[n].op = "send" THEN << "matrix", "result" >>
                       ELSE << Undefined >>,
            ![n].settled = Append(@, Settlement("sendEvent", ok))]
  /\ UNCHANGED << connect, autojoin, status, actors, users, alive, syncOnce,
                  preparedL, activityL, timelineL, memberL, pending, events,
                  logged, requests, syncLog, delivered, memberLog >>

\* The event relay: start() and the client's sync and timeline callbacks.
Next ==
  \/ Start
  \/ StartClientSettled
  \/ StartJoinSettled
  \/ Sync
  \/ Timeline
  \/ Resume

Spec == Init /\ [][Next]_vars

\* The lifecycle and the membership listener: start(), stop() and the
\* client's sync and membership callbacks.
NextLife ==
  \/ Start
  \/ StartClientSettled
  \/ StartJoinSettled
  \/ Stop
  \/ Sync
  \/ Membership
  \/ Resume

SpecLife == Init /\ [][NextLife]_vars

\* The command surface: register and _registerActor.
NextCmd ==
  \/ Register
  \/ RegisterSettled
  \/ RegisterActor
  \/ AvailabilitySettled
  \/ ActorRegisterSettled
  \/ LoginSettled
  \/ ActorJoinSettled

SpecCmd == Init /\ [][NextCmd]_vars

\* The messaging surface: _send, alert, _getEvent, _react and _redact.
NextMsg ==
  \/ Send
  \/ Alert
  \/ SendSettled
  \/ GetEventCall
  \/ React
  \/ ReactSettled
  \/ Redact

SpecMsg == Init /\ [][NextMsg]_vars

\* The registry: _ensureUser, the id getter, _registerActor, and the timeline
\* callbacks start() subscribes to.
NextReg ==
  \/ Start
  \/ StartClientSettled
  \/ StartJoinSettled
  \/ Sync
  \/ Timeline
  \/ Resume
  \/ EnsureUser
  \/ IdRead
  \/ RegisterKnownActor
  \/ AvailabilitySettled
  \/ ActorRegisterSettled
  \/ LoginSettled
  \/ ActorJoinSettled

SpecReg == Init /\ [][NextReg]_vars

\* ------------------------------------------------------------- properties
CauseOf(kind, i) == << kind, i >>

Emitted(type, c) == Count(events, LAMBDA e : e.type = type /\ e.cause = c)
Suspended(type, c) == Count(pending, LAMBDA e : e.type = type /\ e.cause = c)
EmittedFor(c) == Count(events, LAMBDA e : e.cause = c)
Requested(op, c) == Count(requests, LAMBDA r : r.op = op /\ r.cause = c)
Starts == Count(calls, LAMBDA c : c.op = "start")
StartsReturned ==
  Count(calls, LAMBDA c : c.op = "start" /\ c.outcome = "returned")

PreparedStatus(st) == Trim(st) = << "PREPARED" >>

\* The runs of the prepared handler caused by the first k sync callbacks.
RECURSIVE PreparedRuns(_)
PreparedRuns(k) ==
  IF k = 0 THEN 0
  ELSE PreparedRuns(k - 1) +
       (IF PreparedStatus(syncLog[k].status)
          THEN syncLog[k].once * syncLog[k].prepared ELSE 0)

\* The activity event the claim C1 describes for the delivered event i.
IsActivityFor(e, i) ==
  /\ e.type = "activity"
  /\ e.actor = ActorId("id", delivered[i].sender)
  /\ e.id = i
  /\ e.content = delivered[i].body
  /\ e.target = << "/rooms/", delivered[i].room >>

\* C1 (as stated): every message timeline event handed to the adapter
\* produces exactly one 'activity' event, for any sequence of start() calls.
C1_ExactlyOneActivity ==
  \A i \in DOMAIN delivered :
    ( /\ delivered[i].type = "m.room.message"
      /\ delivered[i].subs >= 1
      /\ Suspended("activity", CauseOf("timeline", i)) = 0 )
    => Emitted("activity", CauseOf("timeline", i)) = 1

\* C1 (amended): a message timeline event produces one 'activity' event per
\* Room.timeline listener in place at its delivery, each emitted when its
\* handler resumes from the state-sync await; there is one listener per run
\* of the prepared handler, so exactly one after a single start() and its
\* PREPARED sync, and none before.  Every such event has the actor id
\* derived for the sender, the body as object.content, the event id as
\* object.id and the room id in its target.
C1_ActivityPerListener ==
  \A i \in DOMAIN delivered :
    delivered[i].type = "m.room.message" =>
      LET c == CauseOf("timeline", i)
      IN /\ Emitted("activity", c) + Suspended("activity", c) = delivered[i].subs
         /\ delivered[i].subs = PreparedRuns(delivered[i].syncs)
         /\ Starts = 1 => delivered[i].subs <= 1
         /\ \A k \in DOMAIN events :
              events[k].cause = c => IsActivityFor(events[k], i)

C1_Witness ==
  \E i \in DOMAIN delivered :
    /\ Starts = 1
    /\ delivered[i].sender = "@alice:matrix.org"
    /\ delivered[i].subs = 1
    /\ Emitted("activity", CauseOf("timeline", i)) = 1
    /\ \E k \in DOMAIN events : IsActivityFor(events[k], i)

\* C2: when an 'activity' event is emitted, the local state already holds
\* users[sender] = the event's actor id, and an actors entry for that id.
C2_EnsureBeforeUse ==
  [][ \A k \in (Len(events) + 1) .. Len(events') :
        events'[k].type = "activity" =>
          LET u == delivered[events'[k].id].sender
          IN /\ u \in DOMAIN users
             /\ users[u] = events'[k].actor
             /\ events'[k].actor \in DOMAIN actors ]_vars

\* An activity was emitted after a later callback's warning: another
\* callback ran while the handler was suspended.
C2_Witness ==
  \E k, l \in DOMAIN events :
    /\ k < l
    /\ events[k].type = "warning"
    /\ events[l].type = "activity"
    /\ events[k].cause[2] > events[l].id
    /\ users[delivered[events[l].id].sender] = events[l].actor

\* C3 (as stated): a PREPARED sync callback handled by the adapter causes
\* 'ready' to be emitted exactly once, for any number of start() calls.
C3_ReadyExactlyOnce ==
  \A i \in DOMAIN syncLog :
    ( /\ PreparedStatus(syncLog[i].status)
      /\ syncLog[i].once >= 1
      /\ Suspended("ready", CauseOf("sync", i)) = 0 )
    => Emitted("ready", CauseOf("sync", i)) = 1

\* C3 (amended): a PREPARED sync callback causes one 'ready' event per run
\* of the prepared handler, that is (once-listeners not fired yet) x
\* ('prepared' listeners): exactly one when start() was called once and no
\* sync callback was handled since, n x n after n start() calls, none when
\* no once-listener is left; a sync callback with another status causes
\* none.  Each run subscribes to the timeline callback before its 'ready'.
C3_ReadyPerPreparedRun ==
  /\ \A i \in DOMAIN syncLog :
       LET c == CauseOf("sync", i)
       IN /\ Emitted("ready", c) + Suspended("ready", c) =
               IF PreparedStatus(syncLog[i].status)
                 THEN syncLog[i].once * syncLog[i].prepared ELSE 0
          /\ Starts = 1 => syncLog[i].once * syncLog[i].prepared <= 1
  /\ timelineL = Count(events, LAMBDA e : e.type = "ready")
                 + Count(pending, LAMBDA e : e.type = "ready")

C3_Witness ==
  /\ Starts = 1
  /\ Len(syncLog) = 1
  /\ syncLog[1].status = << SP, "PREPARED", SP >>
  /\ Emitted("ready", CauseOf("sync", 1)) = 1
  /\ timelineL = 1

\* C6 (as stated): every sync status other than PREPARED delivered after
\* start() is fatal: an 'error' event is emitted and the process terminates.
C6_EveryOtherStatusFatal ==
  \A i \in DOMAIN syncLog :
    ~PreparedStatus(syncLog[i].status) =>
      ~alive /\ Emitted("error", CauseOf("sync", i)) >= 1

\* C6 (amended): a sync status other than PREPARED is fatal when a
\* once-listener is still waiting (it is the first sync callback since a
\* start() call): one 'error' event is emitted, the process terminates at
\* once, and no 'prepared' or 'ready' is emitted for it.  A sync status
\* delivered when no once-listener is left is ignored.
C6_FirstOtherStatusFatal ==
  \A i \in DOMAIN syncLog :
    ~PreparedStatus(syncLog[i].status) =>
      LET c == CauseOf("sync", i)
      IN IF syncLog[i].once >= 1
           THEN /\ ~alive
                /\ i = Len(syncLog)
                /\ Emitted("error", c) = 1
                /\ EmittedFor(c) = 1
                /\ events[Len(events)].cause = c
                /\ Suspended("ready", c) = 0
           ELSE EmittedFor(c) = 0 /\ Suspended("ready", c) = 0

C6_Witness ==
  \E i \in DOMAIN syncLog :
    /\ syncLog[i].status = << "SYNCING" >>
    /\ syncLog[i].once >= 1
    /\ ~alive
    /\ Emitted("error", CauseOf("sync", i)) = 1

\* C7 (as stated): every timeline event of another type delivered after
\* start() produces a 'warning' naming the type, before or after the
\* PREPARED sync.
C7_WarningAlways ==
  \A i \in DOMAIN delivered :
    delivered[i].type # "m.room.message" =>
      \E k \in DOMAIN events :
        /\ events[k].type = "warning"
        /\ events[k].cause = CauseOf("timeline", i)
        /\ events[k].content = delivered[i].type

\* C7 (amended): a timeline event of another type produces, at once, one
\* 'warning' naming the type per Room.timeline listener in place at its
\* delivery (one per run of the prepared handler: exactly one after a single
\* start() and its PREPARED sync), and never an 'error' or 'activity'; an
\* event delivered before the PREPARED sync was handled produces nothing.
C7_WarningPerListener ==
  \A i \in DOMAIN delivered :
    delivered[i].type # "m.room.message" =>
      LET c == CauseOf("timeline", i)
      IN /\ Emitted("warning", c) = delivered[i].subs
         /\ delivered[i].subs = PreparedRuns(delivered[i].syncs)
         /\ Starts = 1 => delivered[i].subs <= 1
         /\ \A k \in DOMAIN events :
              events[k].cause = c =>
                events[k].type = "warning" /\ events[k].content = delivered[i].type
         /\ \A k \in DOMAIN pending : pending[k].cause # c

C7_Witness ==
  \E i \in DOMAIN delivered :
    /\ delivered[i].type = "m.reaction"
    /\ delivered[i].subs = 1
    /\ Emitted("warning", CauseOf("timeline", i)) = 1

\* C4 (as stated): the status is READY at first, STARTING while start()
\* runs, and STARTED when start() has returned.
C4_StatusLifecycle ==
  /\ calls = << >> => status = "READY"
  /\ (calls # << >> /\ \A k \in DOMAIN calls : calls[k].op = "start") =>
       LET last == calls[Len(calls)]
       IN /\ InFlight(last) => status = "STARTING"
          /\ last.outcome = "returned" => status = "STARTED"

\* C5 (as stated): once stop() has returned the status is STOPPED, whatever
\* happens afterwards.
C5_StoppedTerminal ==
  (\E k \in DOMAIN calls : calls[k].op = "stop") => status = "STOPPED"

\* The join requests a membership callback triggered.
JoinsFor(i) == Requested("joinRoom", CauseOf("member", i))

OwnInvite(m) == m.membership = "invite" /\ m.userId = Handle

\* C8 (as stated): an invite for the adapter's own handle delivered after
\* start() was invoked triggers exactly one join request under autojoin,
\* and any other membership callback none.
C8_ExactlyOneJoin ==
  \A i \in DOMAIN memberLog :
    JoinsFor(i) = IF autojoin /\ OwnInvite(memberLog[i]) THEN 1 ELSE 0

\* C8 (amended): an invite for the adapter's own handle triggers, under
\* autojoin, one join request for the member's room per membership listener,
\* and start() adds its listener only when it returns: exactly one request
\* after a single start() that returned, none while start() is suspended on
\* the client or after it threw, n after n start() calls that returned.
\* Without autojoin, or for another membership or user, none is triggered.
C8_JoinPerReturnedStart ==
  /\ memberL = StartsReturned
  /\ \A i \in DOMAIN memberLog :
       /\ JoinsFor(i) = IF autojoin /\ OwnInvite(memberLog[i])
                          THEN memberLog[i].subs ELSE 0
       /\ memberLog[i].subs <= Starts
       /\ \A k \in DOMAIN requests :
            requests[k].cause = CauseOf("member", i) =>
              requests[k].op = "joinRoom" /\ requests[k].arg = memberLog[i].roomId

C8_Witness ==
  \E i \in DOMAIN memberLog :
    /\ autojoin
    /\ OwnInvite(memberLog[i])
    /\ Starts = 1
    /\ memberLog[i].subs = 1
    /\ JoinsFor(i) = 1

\* C9: _registerActor called with an object without pubkey throws the
\* validation error at once: no request is issued, no event is emitted and
\* the local state stays as it was.
C9_NoPubkeyFailsFirst ==
  [][ ( /\ Len(calls') = Len(calls) + 1
        /\ calls'[Len(calls')].op = "registerActor"
        /\ calls'[Len(calls')].args[1] = Undefined )
      => /\ calls'[Len(calls')].outcome = "threw"
         /\ calls'[Len(calls')].ret = "Field \"pubkey\" is required."
         /\ UNCHANGED << status, actors, users, events, logged, requests >> ]_vars

C9_Witness ==
  \E k \in DOMAIN calls :
    /\ calls[k].op = "registerActor"
    /\ calls[k].args[1] = Undefined
    /\ calls[k].outcome = "threw"
    /\ k > 1

\* C10: register called with a missing or empty username or password throws
\* a validation error, and no registration request is made for it.
C10_RegisterValidates ==
  \A k \in DOMAIN calls :
    ( /\ calls[k].op = "register"
      /\ \/ calls[k].args[1] \in { Undefined, "" }
         \/ calls[k].args[2] \in { Undefined, "" } )
    => /\ calls[k].outcome = "threw"
       /\ calls[k].ret \in { "Must provide username.", "Must provide password." }
       /\ \A r \in DOMAIN requests : requests[r].cause # << "register", k >>

C10_Witness ==
  \E k \in DOMAIN calls :
    /\ calls[k].op = "register"
    /\ calls[k].args = << "alice", "" >>
    /\ calls[k].outcome = "threw"
    /\ calls[k].ret = "Must provide password."

\* The client requests made for the call with cause c, in the order made.
OpsFor(c) ==
  LET made == SelectSeq(requests, LAMBDA r : r.cause = c)
  IN [ i \in DOMAIN made |-> made[i].op ]

\* The failed settlements the call k saw.
Failures(k) == Count(calls[k].settled, LAMBDA t : ~t[2])

\* The 'error' and 'warning' events emitted for the cause c.
Surfaced(c) == Emitted("error", c) + Emitted("warning", c)

\* C11: register called with a username and a password never throws: when the
\* registration request fails the failure is swallowed and the call returns
\* null, and when it succeeds the call returns the client's result.
C11_RegisterSwallowsFailure ==
  \A k \in DOMAIN calls :
    ( /\ calls[k].op = "register"
      /\ ~Falsy(calls[k].args[1])
      /\ ~Falsy(calls[k].args[2]) )
    => /\ calls[k].outcome # "threw"
       /\ Requested("registerRequest", << "register", k >>) = 1
       /\ calls[k].settled # << >> =>
            /\ calls[k].outcome = "returned"
            /\ calls[k].settled[1][1] = "registerRequest"
            /\ calls[k].ret = IF calls[k].settled[1][2] THEN "result" ELSE "null"

C11_Witness ==
  \E k, l \in DOMAIN calls :
    /\ calls[k].op = "register"
    /\ calls[k].settled = << Settlement("registerRequest", FALSE) >>
    /\ calls[k].outcome = "returned"
    /\ calls[k].ret = "null"
    /\ calls[l].op = "register"
    /\ calls[l].settled = << Settlement("registerRequest", TRUE) >>
    /\ calls[l].ret = "result"

\* C12: every failure of a client request that register or _registerActor
\* swallows (the registration request; the availability check, the
\* registration, the login and the coordinator join of _registerActor) is
\* surfaced as an 'error' or 'warning' event of the call.
C12_SwallowedFailuresSurfaced ==
  \A k \in DOMAIN calls :
    calls[k].op \in { "register", "registerActor" }
    => Surfaced(<< calls[k].op, k >>) >= Failures(k)

Matches(rooms, eventID) ==
  UNION { { << i, j >> : j \in { x \in DOMAIN rooms[i].timeline :
                                     rooms[i].timeline[x].id = eventID } } :
          i \in DOMAIN rooms }

\* The match in the last room that has one, at its most recent position.
FirstInScan(rooms, eventID) ==
  CHOOSE p \in Matches(rooms, eventID) :
    \A q \in Matches(rooms, eventID) :
      q[1] < p[1] \/ (q[1] = p[1] /\ q[2] <= p[2])

\* The requests made for the cause c, in the order made.
RequestsFor(c) == SelectSeq(requests, LAMBDA r : r.cause = c)

\* C14: _react and _redact of an event id found in no room fail with an error
\* and make no request; of an event that is found, _react makes exactly one
\* sendEvent of an m.annotation reaction and _redact exactly one redactEvent,
\* addressed to the room of the event found.
C14_ReactRedact ==
  \A k \in DOMAIN calls :
    calls[k].op \in { "react", "redact" }
    => LET eventID == calls[k].args[1]
           rooms == calls[k].args[2]
           made == RequestsFor(<< calls[k].op, k >>)
       IN IF Matches(rooms, eventID) = { }
            THEN /\ calls[k].outcome = "threw"
                 /\ calls[k].settled = << >>
                 /\ made = << >>
            ELSE LET p == FirstInScan(rooms, eventID)
                     room == rooms[p[1]].timeline[p[2]].room_id
                 IN /\ Len(made) = 1
                    /\ room = rooms[p[1]].roomId
                    /\ made[1].arg[1] = room
                    /\ calls[k].op = "react" =>
                         /\ made[1].op = "sendEvent"
                         /\ made[1].arg = << room, "m.reaction",
                                             << "m.annotation", eventID, calls[k].args[3] >> >>
                    /\ calls[k].op = "redact" =>
                         /\ made[1].op = "redactEvent"
                         /\ made[1].arg = << room, eventID >>
                         /\ calls[k].outcome = "returned"

C14_Witness ==
  \E k, l \in DOMAIN calls :
    /\ calls[k].op = "react"
    /\ calls[k].outcome = "threw"
    /\ calls[k].settled = << >>
    /\ Matches(calls[k].args[2], calls[k].args[1]) = { }
    /\ calls[l].op = "redact"
    /\ calls[l].outcome = "returned"
    /\ Cardinality(Matches(calls[l].args[2], calls[l].args[1])) = 3
    /\ RequestsFor(<< "redact", l >>) =
         << Req("redactEvent", << "redact", l >>, << "!den", "$1" >>) >>

\* C17: _send of a message makes exactly one sendEvent of type m.room.message
\* with msgtype m.text, to the channel given or else to the coordinator room,
\* with the message's object.content as body; when the request succeeds the
\* call returns the client's result as { matrix: result }, and when it fails
\* the failure reaches the caller.
C17_SendOneTextMessage ==
  \A k \in DOMAIN calls :
    ( calls[k].op = "send" /\ calls[k].args[1].defined )
    => LET msg == calls[k].args[1]
           channel == calls[k].args[2]
           made == RequestsFor(<< "send", k >>)
       IN /\ Len(made) = 1
          /\ made[1].op = "sendEvent"
          /\ made[1].arg[1] = (IF channel = Undefined THEN Coordinator ELSE channel)
          /\ made[1].arg[2] = "m.room.message"
          /\ made[1].arg[4] = "m.text"
          /\ msg.object => made[1].arg[3] = msg.content
          /\ Len(calls[k].settled) <= 1
          /\ InFlight(calls[k]) <=> calls[k].settled = << >>
          /\ calls[k].settled = << Settlement("sendEvent", TRUE) >> =>
               /\ calls[k].outcome = "returned"
               /\ calls[k].ret = << "matrix", "result" >>
          /\ calls[k].settled = << Settlement("sendEvent", FALSE) >> =>
               /\ calls[k].outcome = "threw"
               /\ calls[k].ret = << "rejection" >>

C17_Witness ==
  \E k, l \in DOMAIN calls :
    /\ calls[k].op = "send"
    /\ calls[k].args[2] = "!lobby"
    /\ calls[k].args[1].object
    /\ calls[k].outcome = "returned"
    /\ calls[l].op = "send"
    /\ calls[l].args[2] = Undefined
    /\ calls[l].args[1].object
    /\ calls[l].outcome = "threw"
    /\ calls[l].settled = << Settlement("sendEvent", FALSE) >>

\* C18: _getEvent returns an event with the id when the rooms hold one and
\* null otherwise; when several events have the id, it returns the one met
\* first scanning the rooms from the last to the first and each timeline from
\* the most recent event to the oldest.
C18_GetEventScanOrder ==
  \A k \in DOMAIN calls :
    calls[k].op = "getEvent"
    => LET eventID == calls[k].args[1]
           rooms == calls[k].args[2]
       IN /\ calls[k].outcome = "returned"
          /\ (calls[k].ret = Null) <=> (Matches(rooms, eventID) = { })
          /\ Matches(rooms, eventID) # { } =>
               LET p == FirstInScan(rooms, eventID)
               IN /\ calls[k].ret = rooms[p[1]].timeline[p[2]]
                  /\ calls[k].ret.id = eventID

C18_Witness ==
  \E k, l \in DOMAIN calls :
    /\ calls[k].op = "getEvent"
    /\ Cardinality(Matches(calls[k].args[2], calls[k].args[1])) = 3
    /\ calls[k].ret = TimelineEvent("$1", "!den", "den")
    /\ calls[l].op = "getEvent"
    /\ calls[l].args[2] # << >>
    /\ calls[l].ret = Null

\* The calls that went through _ensureUser: direct ones and reads of `id`.
EnsureCalls == { k \in DOMAIN calls : calls[k].op \in { "ensureUser", "id" } }

C16_OfflineNoRequests ==
  ~connect =>
    /\ requests = << >>
    /\ \A k \in DOMAIN calls :
         /\ calls[k].settled = << >>
         /\ calls[k].op = "start" => calls[k].outcome = "returned"
         /\ ( calls[k].op = "registerActor" /\ ~Falsy(calls[k].args[1]) ) =>
              /\ calls[k].outcome = "returned"
              /\ ActorId("pubkey", calls[k].args[1]) \in DOMAIN actors
              /\ Emitted("actor", << "registerActor", k >>) = 1
              /\ \E i \in DOMAIN events :
                   events[i] = ActorEvent(k, calls[k].args[1])

C16_Witness ==
  /\ ~connect
  /\ \E k, l \in DOMAIN calls :
       /\ calls[k].op = "start"
       /\ calls[k].outcome = "returned"
       /\ calls[l].op = "registerActor"
       /\ calls[l].outcome = "returned"
       /\ Emitted("actor", << "registerActor", l >>) = 1
  /\ requests = << >>

\* C20: every entry users[U] names an actor id that is a key of actors, and
\* no entry of actors or users is ever removed: each user a timeline handler,
\* an _ensureUser call or an id read mapped is still mapped, and each actor
\* a _registerActor call stored is still stored.
C20_RegistryIntegrity ==
  /\ \A U \in DOMAIN users : users[U] \in DOMAIN actors
  /\ \A i \in DOMAIN delivered :
       delivered[i].subs >= 1 => delivered[i].sender \in DOMAIN users
  /\ \A k \in EnsureCalls : calls[k].args[1] \in DOMAIN users
  /\ \A k \in DOMAIN calls :
       ( calls[k].op = "registerActor" /\ calls[k].outcome # "threw" )
       => ActorId("pubkey", calls[k].args[1]) \in DOMAIN actors

C20_Witness ==
  /\ \E i \in DOMAIN delivered :
       /\ delivered[i].subs >= 1
       /\ delivered[i].sender \in DOMAIN users
  /\ \E k \in DOMAIN calls :
       /\ calls[k].op = "registerActor"
       /\ ActorId("pubkey", calls[k].args[1]) \in DOMAIN actors
  /\ Cardinality(DOMAIN actors) >= 2

\* C19: the relay preserves delivery order: of two timeline callbacks, the
\* local events ('activity' or 'warning') produced for the one delivered
\* first are emitted before those produced for the one delivered second.
C19_DeliveryOrderPreserved ==
  \A k, l \in DOMAIN events :
    ( /\ k < l
      /\ events[k].cause[1] = "timeline"
      /\ events[l].cause[1] = "timeline" )
    => events[k].cause[2] <= events[l].cause[2]
====
